---- MODULE Spec2Model ----
(***************************************************************************)
(* Byte-level model of the Blosc2 super-chunk engine (blosc/schunk.c):     *)
(* the live super-chunk (schunk_header), the packed image, and the         *)
(* operations that build, serialize, rebuild and extend them.              *)
(*                                                                         *)
(* Memory is modelled as sequences of bytes (0..255); C offsets are        *)
(* 0-based, so the byte at offset k of buffer m is m[k+1].  A NULL chunk   *)
(* pointer is the empty sequence.  The layout is that of an LP64 build     *)
(* (8-byte pointers, little-endian).                                       *)
(***************************************************************************)
EXTENDS Integers, Sequences, FiniteSets, TLC

(***************************************************************************)
(* Bounds of the model.                                                    *)
(***************************************************************************)
\* most chunks a live super-chunk holds
MaxChunks == 2
\* most chunks a packed image holds
MaxPackedChunks == 3
\* most calls of set_delta_ref by the caller
MaxRefSets == 1

(***************************************************************************)
(* Program constants.                                                      *)
(***************************************************************************)
\* blosc.h: number of filter slots
BLOSC_MAX_FILTERS == 5
\* blosc.h: code of the delta filter
BLOSC_DELTA == 3
\* blosc.h: length of a chunk prefix, the most a chunk grows
BLOSC_MAX_OVERHEAD == 16
\* blosc.h: length of the fixed header of a packed image
BLOSC_HEADER_PACKED_LENGTH == 96
\* sizeof(schunk_header)
SizeofHeader == 96
\* sizeof(void*)
SizeofPtr == 8
\* sizeof(int64_t), the size of a data-offsets-table entry
SizeofInt64 == 8
\* bytes of the header copied verbatim between the two forms
HeaderCopyLen == 40

(***************************************************************************)
(* Inputs.                                                                 *)
(***************************************************************************)
\* uncompressed sizes of the buffers the caller hands in
BufSizes == {1, 2}
\* the byte a stored payload is filled with
PayloadBytes == {170}
\* what uninitialised heap memory may hold
GarbageBytes == {0, 255}
\* the codec's failure codes
CodecErrors == {-1}
\* destination capacities handed to decompress_chunk
DestCaps == 0..2
\* indices handed to decompress_chunk
ChunkIndices == 0..MaxChunks
\* addresses malloc may return for the image
HeapAddrs == {4096}
\* typesize of the buffers appended
TypeSizes == {4}
\* filter pipelines handed to new
FilterChoices == { <<3, 1, 0, 0, 0>>, <<4, 2, 0, 0, 0>> }

NULL == << >>

(***************************************************************************)
(* Little-endian memory access.                                            *)
(***************************************************************************)
Pow256(k) == CASE k = 0 -> 1 [] k = 1 -> 256 [] k = 2 -> 65536 [] k = 3 -> 16777216

\* byte k (0-based) of the two's complement little-endian image of v
LEByte(v, k) == IF k < 4 THEN (v \div Pow256(k)) % 256
                ELSE IF v < 0 THEN 255 ELSE 0

\* the n bytes of the little-endian image of v
LE(v, n) == [k \in 1..n |-> LEByte(v, k - 1)]

\* memcpy(dst + off, src, n), within the bounds of dst
MemCpy(dst, off, src, n) ==
  LET m == IF off + n <= Len(dst) THEN n ELSE Len(dst) - off
  IN  SubSeq(dst, 1, off) \o SubSeq(src, 1, m) \o SubSeq(dst, off + m + 1, Len(dst))

\* *(intN*)(mem + off) = v, n = N/8
WrLE(mem, off, n, v) == MemCpy(mem, off, LE(v, n), n)

\* the unsigned value of the n bytes at mem + off (n <= 4)
RdLow(mem, off, n) ==
  LET B(k) == IF k < n THEN mem[off + k + 1] ELSE 0
  IN  B(0) + 256 * B(1) + 65536 * B(2) + 16777216 * B(3)

\* *(int32_t*)(mem + off)
RdI32(mem, off) ==
  IF mem[off + 4] >= 128
  THEN RdLow(mem, off, 3) + (mem[off + 4] - 256) * 16777216
  ELSE RdLow(mem, off, 4)

\* *(int64_t*)(mem + off), defined for the values that fit 32 bits, whose
\* upper four bytes are the sign extension of the lower four
RdI64(mem, off) ==
  CASE \A k \in 5..8 : mem[off + k] = (IF mem[off + 4] >= 128 THEN 255 ELSE 0) ->
         RdI32(mem, off)

\* *(uint32_t*)(mem + off)
RdU32(mem, off) == RdLow(mem, off, 4)

\* *(uint16_t*)(mem + off)
RdU16(mem, off) == RdLow(mem, off, 2)

\* the n bytes at mem + off
Bytes(mem, off, n) == SubSeq(mem, off + 1, off + n)

\* memmove(mem + dst, mem + src, n)
MemMove(mem, dst, src, n) == MemCpy(mem, dst, Bytes(mem, src, n), n)

\* *(int64_t*)(mem + off) += d
AddI64(mem, off, d) == WrLE(mem, off, 8, RdI64(mem, off) + d)

\* n bytes of value b
Fill(n, b) == [i \in 1..n |-> b]


(***************************************************************************)
(* The block codec (blosc_compress, blosc_decompress), by its contract: a  *)
(* chunk opens with a 16-byte prefix whose bytes [4..8) hold nbytes and    *)
(* whose bytes [12..16) hold cbytes, the chunk's whole length.             *)
(***************************************************************************)
\* a chunk of nbytes uncompressed bytes with the given compressed payload
MkChunk(typesize, nbytes, payload) ==
  LET cbytes == BLOSC_MAX_OVERHEAD + Len(payload)
      prefix == [i \in 1..BLOSC_MAX_OVERHEAD |->
                   CASE i = 1 -> 2
                     [] i = 2 -> 1
                     [] i = 4 -> typesize
                     [] i \in 5..8 -> LEByte(nbytes, i - 5)
                     [] i \in 9..12 -> LEByte(nbytes, i - 9)
                     [] i \in 13..16 -> LEByte(cbytes, i - 13)
                     [] OTHER -> 0]
  IN  prefix \o payload

\* lengths of the payload the codec may write for nbytes bytes: all of them
\* stored, or (from two bytes on) all of them compressed away
PayloadLens(nbytes) == {nbytes} \cup (IF nbytes >= 2 THEN {0} ELSE {})

\* what blosc_compress may return for a source of nbytes bytes: a negative
\* code, or cbytes with the chunk it wrote (stored, or compressed away)
blosc_compress(clevel, doshuffle, typesize, nbytes) ==
  { [cbytes |-> e, chunk |-> NULL] : e \in CodecErrors }
  \cup
  { [cbytes |-> BLOSC_MAX_OVERHEAD + k, chunk |-> MkChunk(typesize, nbytes, Fill(k, b))] :
      k \in PayloadLens(nbytes), b \in PayloadBytes }

\* what blosc_decompress may return for a chunk: its nbytes, or a negative code
blosc_decompress(src) == {RdI32(src, 4)} \cup CodecErrors

\* the chunks a caller builds with the codec and hands to the append calls
InputChunks ==
  { o.chunk : o \in { r \in UNION { blosc_compress(5, 1, 4, n) : n \in BufSizes } :
                        r.cbytes >= 0 } }

\* what a freed block may hold when it is read again: its old bytes, or the
\* chunk of a later allocation that reused it
FreedContents(chunk) == {chunk, MkChunk(1, 1, << >>)}

(***************************************************************************)
(* Filter descriptor.                                                      *)
(***************************************************************************)
\* uint16_t encode_filters(schunk_params*)
encode_filters(params) ==
  LET RECURSIVE enc(_, _)
      enc(i, acc) == IF i >= BLOSC_MAX_FILTERS THEN acc
                     ELSE enc(i + 1, (acc + params.filters[i + 1] * (2 ^ (i * 3))) % 65536)
  IN  enc(0, 0)

\* uint8_t* decode_filters(uint16_t)
decode_filters(enc_filters) ==
  [i \in 1..BLOSC_MAX_FILTERS |-> (enc_filters \div (2 ^ (3 * (i - 1)))) % 4]

(***************************************************************************)
(* The live super-chunk.                                                   *)
(***************************************************************************)
\* schunk_header* blosc2_new_schunk(schunk_params*): calloc, then the fields
blosc2_new_schunk(params) ==
  [ version        |-> 0,
    compressor     |-> params.compressor,
    clevel         |-> params.clevel,
    filters        |-> encode_filters(params),
    filters_meta   |-> params.filters_meta,
    nchunks        |-> 0,
    nbytes         |-> 0,
    cbytes         |-> SizeofHeader,
    filters_chunk  |-> NULL,
    codec_chunk    |-> NULL,
    metadata_chunk |-> NULL,
    userdata_chunk |-> NULL,
    data           |-> << >> ]

\* blosc2_append_chunk without the update of nchunks
append_chunk_keeps_nchunks(s, chunk, copy) ==
  LET nchunks == s.nchunks
      nbytes  == RdI32(chunk, 4)
      cbytes  == RdI32(chunk, 12)
      data    == [i \in 1..(nchunks + 1) |-> IF i = nchunks + 1 THEN chunk ELSE s.data[i]]
  IN  [ sc  |-> [s EXCEPT !.data = data,
                          !.nbytes = @ + nbytes,
                          !.cbytes = @ + cbytes + SizeofPtr],
        ret |-> nchunks + 1 ]

\* size_t blosc2_append_chunk(schunk_header*, void* chunk, int copy):
\* the super-chunk after the call and the value returned
blosc2_append_chunk(s, chunk, copy) ==
  LET nchunks == s.nchunks
      nbytes  == RdI32(chunk, 4)
      cbytes  == RdI32(chunk, 12)
      stored  == IF copy THEN Bytes(chunk, 0, cbytes) ELSE chunk
      data    == [i \in 1..(nchunks + 1) |-> IF i = nchunks + 1 THEN stored ELSE s.data[i]]
  IN  [ sc  |-> [s EXCEPT !.data = data,
                          !.nchunks = nchunks + 1,
                          !.nbytes = @ + nbytes,
                          !.cbytes = @ + cbytes + SizeofPtr],
        ret |-> nchunks + 1 ]

\* int blosc2_set_delta_ref(schunk_header*, size_t nbytes, void* ref);
\* out is what blosc_compress returns, freed what the freed reference holds
blosc2_set_delta_ref(s, nbytes, out, freed) ==
  LET dec_filters == decode_filters(s.filters)
      s1 == IF s.filters_chunk # NULL
            THEN [s EXCEPT !.cbytes = @ - RdU32(s.filters_chunk, 4),
                           !.filters_chunk = freed]
            ELSE s
  IN  IF dec_filters[1] # BLOSC_DELTA THEN [sc |-> s, ret |-> -1]
      ELSE IF out.cbytes < 0 THEN [sc |-> s1, ret |-> out.cbytes]
      ELSE [ sc  |-> [s1 EXCEPT !.filters_chunk = out.chunk,
                                !.cbytes = @ + out.cbytes],
             ret |-> out.cbytes ]

\* size_t blosc2_append_buffer(schunk_header*, size_t typesize, size_t nbytes,
\* void* src); refout and out are what the two blosc_compress calls return.
\* A negative code is returned converted to size_t; ret keeps its signed value.
blosc2_append_buffer(s, typesize, nbytes, refout, out) ==
  LET dec_filters == decode_filters(s.filters)
      install == dec_filters[1] = BLOSC_DELTA /\ s.filters_chunk = NULL
      r  == blosc2_set_delta_ref(s, nbytes, refout, NULL)
      s1 == IF install THEN r.sc ELSE s
  IN  IF install /\ r.ret < 0 THEN [sc |-> r.sc, ret |-> r.ret]
      ELSE IF out.cbytes < 0 THEN [sc |-> s1, ret |-> out.cbytes]
      ELSE blosc2_append_chunk(s1, out.chunk, FALSE)

\* blosc2_decompress_chunk without the check of the capacity of dest
decompress_chunk_unchecked_cap(s, nchunk, nbytes, dec) ==
  IF nchunk >= s.nchunks THEN [ret |-> -10, decomp |-> FALSE]
  ELSE [ret |-> dec, decomp |-> TRUE]

\* int blosc2_decompress_chunk(schunk_header*, int64_t nchunk, void* dest,
\* int nbytes); dec is what blosc_decompress returns when it is called
blosc2_decompress_chunk(s, nchunk, nbytes, dec) ==
  LET nchunks == s.nchunks
      src     == s.data[nchunk + 1]
      nbytes_ == RdI32(src, 4)
  IN  IF nchunk >= nchunks THEN [ret |-> -10, decomp |-> FALSE]
      ELSE IF nbytes < nbytes_ THEN [ret |-> -11, decomp |-> FALSE]
      ELSE [ret |-> dec, decomp |-> TRUE]

(***************************************************************************)
(* The packed image.                                                       *)
(***************************************************************************)
\* the first 40 bytes of a schunk_header: version and three flag bytes,
\* compressor, clevel, filters and filters_meta (16 bits each), padding, then
\* nchunks, nbytes and cbytes (64 bits each)
schunk_header_bytes(s) ==
  LET z  == Fill(HeaderCopyLen, 0)
      b0 == WrLE(z, 0, 1, s.version)
      b1 == WrLE(b0, 4, 2, s.compressor)
      b2 == WrLE(b1, 6, 2, s.clevel)
      b3 == WrLE(b2, 8, 2, s.filters)
      b4 == WrLE(b3, 10, 2, s.filters_meta)
      b5 == WrLE(b4, 16, 8, s.nchunks)
      b6 == WrLE(b5, 24, 8, s.nbytes)
  IN  WrLE(b6, 32, 8, s.cbytes)

\* a calloc'ed schunk_header after memcpy(sc_header, packed, 40)
schunk_header_load(packed) ==
  [ version        |-> packed[1],
    compressor     |-> RdU16(packed, 4),
    clevel         |-> RdU16(packed, 6),
    filters        |-> RdU16(packed, 8),
    filters_meta   |-> RdU16(packed, 10),
    nchunks        |-> RdI64(packed, 16),
    nbytes         |-> RdI64(packed, 24),
    cbytes         |-> RdI64(packed, 32),
    filters_chunk  |-> NULL,
    codec_chunk    |-> NULL,
    metadata_chunk |-> NULL,
    userdata_chunk |-> NULL,
    data           |-> << >> ]

\* int64_t blosc2_get_packed_length(schunk_header*)
blosc2_get_packed_length(s) ==
  LET anc(chunk, length) == IF chunk # NULL THEN length + RdI32(chunk, 12) ELSE length
      l1 == anc(s.filters_chunk, BLOSC_HEADER_PACKED_LENGTH)
      l2 == anc(s.codec_chunk, l1)
      l3 == anc(s.metadata_chunk, l2)
      l4 == anc(s.userdata_chunk, l3)
      RECURSIVE loop(_, _)
      loop(i, length) == IF i >= s.nchunks THEN length
                         ELSE loop(i + 1, length + SizeofInt64 + RdI32(s.data[i + 1], 12))
  IN  loop(0, l4)

\* pack_copy_chunk without the advance of *cbytes
pack_copy_chunk_no_advance(chunk, st, offset) ==
  IF chunk # NULL
  THEN [ packed |-> WrLE(MemCpy(st.packed, st.cbytes, chunk, RdI32(chunk, 12)),
                         offset, 8, st.cbytes),
         nbytes |-> st.nbytes + RdI32(chunk, 4),
         cbytes |-> st.cbytes ]
  ELSE [st EXCEPT !.packed = WrLE(@, offset, 8, 0)]

\* void pack_copy_chunk(void* chunk, void* packed, int offset, int64_t* cbytes,
\* int64_t* nbytes); st holds packed, *cbytes and *nbytes
pack_copy_chunk(chunk, st, offset) ==
  IF chunk # NULL
  THEN LET nbytes_ == RdI32(chunk, 4)
           cbytes_ == RdI32(chunk, 12)
       IN  [ packed |-> WrLE(MemCpy(st.packed, st.cbytes, chunk, cbytes_),
                             offset, 8, st.cbytes),
             nbytes |-> st.nbytes + nbytes_,
             cbytes |-> st.cbytes + cbytes_ ]
  ELSE [st EXCEPT !.packed = WrLE(@, offset, 8, 0)]

\* the end of blosc2_pack_schunk: the length of the offsets table is added,
\* the assertion checked and the three counters written
pack_counters(st, nchunks, data_offsets_len, packed_len) ==
  [ packed |-> WrLE(WrLE(WrLE(st.packed, 16, 8, nchunks),
                         24, 8, st.nbytes + data_offsets_len),
                    32, 8, st.cbytes + data_offsets_len),
    abort  |-> st.cbytes + data_offsets_len # packed_len ]

\* the loop of blosc2_pack_schunk over the data chunks, from chunk i on
RECURSIVE pack_data(_, _, _, _)
pack_data(s, data_pointers, i, st) ==
  IF i >= s.nchunks THEN st
  ELSE LET data_chunk   == s.data[i + 1]
           chunk_nbytes == RdI32(data_chunk, 4)
           chunk_cbytes == RdI32(data_chunk, 12)
       IN  pack_data(s, data_pointers, i + 1,
                     [ packed |-> WrLE(MemCpy(st.packed, st.cbytes, data_chunk, chunk_cbytes),
                                       data_pointers + SizeofInt64 * i, 8, st.cbytes),
                       cbytes |-> st.cbytes + chunk_cbytes,
                       nbytes |-> st.nbytes + chunk_nbytes ])

\* void* blosc2_pack_schunk(schunk_header*); g fills the malloc'ed image.
\* The result is the image, and whether the assertion failed.
blosc2_pack_schunk(s, g) ==
  LET packed_len == blosc2_get_packed_length(s)
      data_offsets_len == s.nchunks * SizeofInt64
      st0 == [packed |-> MemCpy(Fill(packed_len, g), 0, schunk_header_bytes(s), HeaderCopyLen),
              cbytes |-> BLOSC_HEADER_PACKED_LENGTH,
              nbytes |-> BLOSC_HEADER_PACKED_LENGTH]
      st1 == pack_copy_chunk(s.filters_chunk, st0, 40)
      st2 == pack_copy_chunk(s.codec_chunk, st1, 48)
      st3 == pack_copy_chunk(s.metadata_chunk, st2, 56)
      st4 == pack_copy_chunk(s.userdata_chunk, st3, 64)
      st5 == [st4 EXCEPT !.packed = WrLE(@, 72, 8, packed_len - data_offsets_len)]
      st6 == pack_data(s, packed_len - data_offsets_len, 0, st5)
  IN  pack_counters(st6, s.nchunks, data_offsets_len, packed_len)

\* void* unpack_copy_chunk(uint8_t* packed, int offset, schunk_header*,
\* int64_t* nbytes, int64_t* cbytes); st holds the header, *nbytes and *cbytes
unpack_copy_chunk(packed, offset, st) ==
  IF RdI64(packed, offset) # 0
  THEN LET chunk   == RdI64(packed, offset)
           nbytes_ == RdI32(packed, chunk + 4)
           cbytes_ == RdI32(packed, chunk + 12)
       IN  [ dst_chunk |-> Bytes(packed, chunk, cbytes_),
             sc        |-> [st.sc EXCEPT !.nbytes = @ + nbytes_, !.cbytes = @ + cbytes_],
             cbytes    |-> st.cbytes + cbytes_,
             nbytes    |-> st.nbytes + nbytes_ ]
  ELSE [dst_chunk |-> NULL, sc |-> st.sc, cbytes |-> st.cbytes, nbytes |-> st.nbytes]

\* the end of blosc2_unpack_schunk: the counters are stored and compared
\* with those of the image
unpack_counters(packed, st) ==
  [ sc    |-> [st.sc EXCEPT !.nbytes = st.nbytes, !.cbytes = st.cbytes],
    abort |-> RdI64(packed, 24) # st.nbytes \/ RdI64(packed, 32) # st.cbytes ]

\* sc_header->filters_chunk = unpack_copy_chunk(...), and so on: r is what
\* unpack_copy_chunk returned
set_filters_chunk(r) ==
  [sc |-> [r.sc EXCEPT !.filters_chunk = r.dst_chunk], nbytes |-> r.nbytes, cbytes |-> r.cbytes]
set_codec_chunk(r) ==
  [sc |-> [r.sc EXCEPT !.codec_chunk = r.dst_chunk], nbytes |-> r.nbytes, cbytes |-> r.cbytes]
set_metadata_chunk(r) ==
  [sc |-> [r.sc EXCEPT !.metadata_chunk = r.dst_chunk], nbytes |-> r.nbytes, cbytes |-> r.cbytes]
set_userdata_chunk(r) ==
  [sc |-> [r.sc EXCEPT !.userdata_chunk = r.dst_chunk], nbytes |-> r.nbytes, cbytes |-> r.cbytes]

\* the loop of blosc2_unpack_schunk over the data chunks, from chunk i on
RECURSIVE unpack_data(_, _, _, _, _)
unpack_data(packed, data, nchunks, i, st) ==
  IF i >= nchunks THEN st
  ELSE LET data_chunk == RdI64(packed, data + SizeofInt64 * i)
           chunk_size == RdI32(packed, data_chunk + 12)
           new_chunk  == Bytes(packed, data_chunk, chunk_size)
       IN  unpack_data(packed, data, nchunks, i + 1,
                       [ sc     |-> [st.sc EXCEPT !.data = Append(@, new_chunk)],
                         cbytes |-> st.cbytes + chunk_size,
                         nbytes |-> st.nbytes + RdI32(packed, data_chunk + 4) ])

\* the data section of blosc2_unpack_schunk, the counters and the assertions
unpack_chunks(packed, st, nchunks) ==
  LET st5 == unpack_data(packed, RdI64(packed, 72), nchunks, 0,
                         [ sc     |-> st.sc,
                           nbytes |-> st.nbytes + nchunks * SizeofInt64,
                           cbytes |-> st.cbytes + nchunks * SizeofInt64 ])
  IN  unpack_counters(packed, st5)

\* schunk_header* blosc2_unpack_schunk(void* packed): the super-chunk built,
\* and whether an assertion failed
blosc2_unpack_schunk(packed) ==
  LET st0 == [sc |-> schunk_header_load(packed),
              nbytes |-> BLOSC_HEADER_PACKED_LENGTH, cbytes |-> BLOSC_HEADER_PACKED_LENGTH]
      r1  == unpack_copy_chunk(packed, 40, st0)
      r2  == unpack_copy_chunk(packed, 48, set_filters_chunk(r1))
      r3  == unpack_copy_chunk(packed, 56, set_codec_chunk(r2))
      r4  == unpack_copy_chunk(packed, 64, set_metadata_chunk(r3))
  IN  unpack_chunks(packed, set_userdata_chunk(r4), RdI64(packed, 16))

\* blosc2_packed_append_chunk with the new offset put first in the table, not last
packed_append_chunk_offset_first(packed, chunk, g) ==
  LET nchunks      == RdI64(packed, 16)
      packed_len   == RdI64(packed, 32)
      data_offsets == RdI64(packed, 72)
      chunk_offset == packed_len - nchunks * SizeofInt64
      nbytes       == RdI32(chunk, 4)
      cbytes       == RdI32(chunk, 12)
      p1 == packed \o Fill(packed_len + cbytes + SizeofInt64 - Len(packed), g)
      new_data == data_offsets + cbytes
      p2 == MemMove(p1, new_data + SizeofInt64, data_offsets, nchunks * SizeofInt64)
      p3 == WrLE(p2, new_data, 8, chunk_offset)
      p4 == MemCpy(p3, chunk_offset, chunk, cbytes)
      p5 == AddI64(p4, 16, 1)
      p6 == AddI64(p5, 24, nbytes + SizeofInt64)
      p7 == AddI64(p6, 32, cbytes + SizeofInt64)
  IN  AddI64(p7, 72, cbytes)

\* void* blosc2_packed_append_chunk(void* packed, void* chunk); g fills the
\* bytes realloc adds
blosc2_packed_append_chunk(packed, chunk, g) ==
  LET nchunks      == RdI64(packed, 16)
      packed_len   == RdI64(packed, 32)
      data_offsets == RdI64(packed, 72)
      chunk_offset == packed_len - nchunks * SizeofInt64
      nbytes       == RdI32(chunk, 4)
      cbytes       == RdI32(chunk, 12)
      p1 == packed \o Fill(packed_len + cbytes + SizeofInt64 - Len(packed), g)
      data     == data_offsets
      new_data == data + cbytes
      p2 == MemMove(p1, new_data, data, nchunks * SizeofInt64)
      p3 == WrLE(p2, new_data + SizeofInt64 * nchunks, 8, chunk_offset)
      p4 == MemCpy(p3, chunk_offset, chunk, cbytes)
      p5 == AddI64(p4, 16, 1)
      p6 == AddI64(p5, 24, nbytes + SizeofInt64)
      p7 == AddI64(p6, 32, cbytes + SizeofInt64)
  IN  AddI64(p7, 72, cbytes)

\* void* blosc2_packed_append_buffer(void* packed, size_t typesize, size_t
\* nbytes, void* src); addr is the address of the image, out what
\* blosc_compress returns.  The result is the image after the call and
\* whether the pointer returned is null.
blosc2_packed_append_buffer(packed, addr, typesize, nbytes, out, g) ==
  LET filters_chunk == addr + RdI64(packed, 40)
      filters       == decode_filters(RdU16(packed, 8))
  IN  IF filters[1] = BLOSC_DELTA /\ filters_chunk = 0
      THEN [packed |-> packed, null |-> TRUE]
      ELSE IF out.cbytes < 0 THEN [packed |-> packed, null |-> TRUE]
      ELSE [packed |-> blosc2_packed_append_chunk(packed, out.chunk, g), null |-> FALSE]

(***************************************************************************)
(* State.                                                                  *)
(*   params   the schunk_params given to new                               *)
(*   sc       the live super-chunk                                         *)
(*   packed   the packed image (empty before pack)                         *)
(*   added    history: the chunks appended to the image since pack         *)
(*   refsets  number of set_delta_ref calls made by the caller             *)
(*   last     the last call: its name, the value it returned (ret; for a   *)
(*            pointer 0 is null), whether it called blosc_decompress on    *)
(*            dest (decomp), whether an assertion failed (abort), the      *)
(*            super-chunk unpack returned (out), the chunk appended        *)
(*            (chunk), and the index and capacity given to                 *)
(*            decompress_chunk (idx, cap)                                  *)
(*                                                                         *)
(* The caller packs a super-chunk once it has finished appending to it.    *)
(* The image is built by memcpy and shares nothing with the live form, so  *)
(* live calls made after pack would reach no other image.                  *)
(***************************************************************************)
VARIABLES params, sc, packed, added, refsets, last

vars == <<params, sc, packed, added, refsets, last>>

NoSchunk == [nchunks |-> -1]

Ret(op, ret) ==
  [ op |-> op, ret |-> ret, decomp |-> FALSE, abort |-> FALSE, out |-> NoSchunk,
    chunk |-> NULL, idx |-> 0, cap |-> 0 ]

ParamSet ==
  [ filters : FilterChoices, filters_meta : {0}, compressor : {1}, clevel : {5} ]

Init ==
  /\ params \in ParamSet
  /\ sc = blosc2_new_schunk(params)
  /\ packed = << >>
  /\ added = << >>
  /\ refsets = 0
  /\ last = Ret("new", 0)

AppendChunk ==
  /\ packed = << >>
  /\ sc.nchunks < MaxChunks
  /\ \E chunk \in InputChunks, copy \in BOOLEAN :
       LET r == blosc2_append_chunk(sc, chunk, copy)
       IN  /\ sc' = r.sc
           /\ last' = [Ret("append_chunk", r.ret) EXCEPT !.chunk = chunk]
  /\ UNCHANGED <<params, packed, added, refsets>>

SetDeltaRef ==
  /\ packed = << >>
  /\ refsets < MaxRefSets
  /\ \E nbytes \in BufSizes :
       \E out \in blosc_compress(0, 0, 1, nbytes), freed \in FreedContents(sc.filters_chunk) :
         LET r == blosc2_set_delta_ref(sc, nbytes, out, freed)
         IN  /\ sc' = r.sc
             /\ last' = Ret("set_delta_ref", r.ret)
  /\ refsets' = refsets + 1
  /\ UNCHANGED <<params, packed, added>>

AppendBuffer ==
  /\ packed = << >>
  /\ sc.nchunks < MaxChunks
  /\ \E typesize \in TypeSizes, nbytes \in BufSizes :
       LET dec_filters == decode_filters(sc.filters)
           doshuffle   == IF dec_filters[1] = BLOSC_DELTA THEN dec_filters[2]
                          ELSE dec_filters[1]
       IN  \E refout \in blosc_compress(0, 0, 1, nbytes),
              out \in blosc_compress(sc.clevel, doshuffle, typesize, nbytes) :
             LET r == blosc2_append_buffer(sc, typesize, nbytes, refout, out)
             IN  /\ sc' = r.sc
                 /\ last' = [Ret("append_buffer", r.ret) EXCEPT
                               !.chunk = IF r.ret < 0 THEN NULL ELSE out.chunk]
  /\ UNCHANGED <<params, packed, added, refsets>>

DecompressChunk ==
  /\ packed = << >>
  /\ \E nchunk \in ChunkIndices, nbytes \in DestCaps :
       \E dec \in (IF nchunk < sc.nchunks THEN blosc_decompress(sc.data[nchunk + 1])
                   ELSE CodecErrors) :
         LET r == blosc2_decompress_chunk(sc, nchunk, nbytes, dec)
         IN  last' = [Ret("decompress_chunk", r.ret) EXCEPT
                        !.decomp = r.decomp, !.idx = nchunk, !.cap = nbytes]
  /\ UNCHANGED <<params, sc, packed, added, refsets>>

Pack ==
  /\ packed = << >>
  /\ \E g \in GarbageBytes :
       LET r == blosc2_pack_schunk(sc, g)
       IN  /\ packed' = r.packed
           /\ last' = [Ret("pack", 0) EXCEPT !.abort = r.abort]
  /\ UNCHANGED <<params, sc, added, refsets>>

Unpack ==
  /\ packed # << >>
  /\ LET r == blosc2_unpack_schunk(packed)
     IN  last' = [Ret("unpack", 0) EXCEPT !.abort = r.abort, !.out = r.sc]
  /\ UNCHANGED <<params, sc, packed, added, refsets>>

PackedAppendChunk ==
  /\ packed # << >>
  /\ RdI64(packed, 16) < MaxPackedChunks
  /\ \E chunk \in InputChunks, g \in GarbageBytes :
       /\ packed' = blosc2_packed_append_chunk(packed, chunk, g)
       /\ added' = Append(added, chunk)
       /\ last' = [Ret("packed_append_chunk", 1) EXCEPT !.chunk = chunk]
  /\ UNCHANGED <<params, sc, refsets>>

PackedAppendBuffer ==
  /\ packed # << >>
  /\ RdI64(packed, 16) < MaxPackedChunks
  /\ \E addr \in HeapAddrs, typesize \in TypeSizes, nbytes \in BufSizes, g \in GarbageBytes :
       LET filters   == decode_filters(RdU16(packed, 8))
           doshuffle == IF filters[1] = BLOSC_DELTA THEN filters[2] ELSE filters[1]
       IN  \E out \in blosc_compress(RdU16(packed, 6), doshuffle, typesize, nbytes) :
             LET r == blosc2_packed_append_buffer(packed, addr, typesize, nbytes, out, g)
             IN  /\ packed' = r.packed
                 /\ added' = IF r.null THEN added ELSE Append(added, out.chunk)
                 /\ last' = [Ret("packed_append_buffer", IF r.null THEN 0 ELSE 1) EXCEPT
                               !.chunk = IF r.null THEN NULL ELSE out.chunk]
  /\ UNCHANGED <<params, sc, refsets>>

Next ==
  \/ AppendChunk
  \/ SetDeltaRef
  \/ AppendBuffer
  \/ DecompressChunk
  \/ Pack
  \/ Unpack
  \/ PackedAppendChunk
  \/ PackedAppendBuffer

Spec == Init /\ [][Next]_vars

\* the calls on the live super-chunk alone
NextLive ==
  \/ AppendChunk
  \/ SetDeltaRef
  \/ AppendBuffer
  \/ DecompressChunk

SpecLive == Init /\ [][NextLive]_vars

\* a super-chunk built by the append calls, packed, and worked on as an image
NextPacked ==
  \/ AppendChunk
  \/ AppendBuffer
  \/ Pack
  \/ Unpack
  \/ PackedAppendChunk
  \/ PackedAppendBuffer

SpecPacked == Init /\ [][NextPacked]_vars

(***************************************************************************)
(* Properties.                                                             *)
(***************************************************************************)
chunk_nbytes(c) == RdI32(c, 4)
chunk_cbytes(c) == RdI32(c, 12)

\* the ancillary chunks of a super-chunk that are present
Ancillary(s) ==
  SelectSeq(<<s.filters_chunk, s.codec_chunk, s.metadata_chunk, s.userdata_chunk>>,
            LAMBDA c : c # NULL)

SumNbytes(chunks) ==
  LET RECURSIVE sum(_)
      sum(i) == IF i > Len(chunks) THEN 0 ELSE chunk_nbytes(chunks[i]) + sum(i + 1)
  IN  sum(1)

SumCbytes(chunks) ==
  LET RECURSIVE sum(_)
      sum(i) == IF i > Len(chunks) THEN 0 ELSE chunk_cbytes(chunks[i]) + sum(i + 1)
  IN  sum(1)

\* entry i (0-based) of the data-offsets table of an image
TableEntry(image, i) == RdI64(image, RdI64(image, 72) + SizeofInt64 * i)

\* the bytes of chunk i (0-based) of an image
ImageChunk(image, i) ==
  Bytes(image, TableEntry(image, i), RdI32(image, TableEntry(image, i) + 12))

\* C1: unpack(pack(sc)) has the nchunks, nbytes and cbytes of sc, the same
\* ancillary chunks in the same slots, and byte-equal data chunks.
C1_RoundTrip ==
  (last.op = "unpack" /\ added = << >>) =>
    /\ ~last.abort
    /\ last.out.nchunks = sc.nchunks
    /\ last.out.nbytes = sc.nbytes
    /\ last.out.cbytes = sc.cbytes
    /\ last.out.filters_chunk = sc.filters_chunk
    /\ last.out.codec_chunk = sc.codec_chunk
    /\ last.out.metadata_chunk = sc.metadata_chunk
    /\ last.out.userdata_chunk = sc.userdata_chunk
    /\ last.out.data = sc.data

\* C2: in every image made by pack and extended by packed appends, the cbytes
\* field [32..40) is the length of the image, which is the header length plus
\* the cbytes of the ancillary chunks present and of every data chunk plus 8
\* per chunk; the table location [72..80) is that length less 8 per chunk;
\* pack's image has the length get_packed_length gives and its assertion holds.
C2_PackedLength ==
  packed # << >> =>
    LET n     == sc.nchunks + Len(added)
        total == BLOSC_HEADER_PACKED_LENGTH + SumCbytes(Ancillary(sc))
                 + SumCbytes(sc.data \o added) + n * 8
    IN  /\ RdI64(packed, 16) = n
        /\ RdI64(packed, 32) = Len(packed)
        /\ Len(packed) = total
        /\ RdI64(packed, 72) = total - n * 8
        /\ last.op = "pack" =>
             ~last.abort /\ Len(packed) = blosc2_get_packed_length(sc)

C2_Witness ==
  /\ last.op = "packed_append_chunk"
  /\ Len(added) >= 2
  /\ sc.nchunks >= 1
  /\ sc.filters_chunk # NULL

\* C3: cbytes of the live super-chunk is sizeof(header) plus the cbytes of the
\* data chunks and of the ancillary chunks present plus a pointer per chunk.
C3_CbytesAccounting ==
  sc.cbytes = SizeofHeader + SumCbytes(sc.data) + SumCbytes(Ancillary(sc))
              + sc.nchunks * SizeofPtr

\* C4: nbytes of the live super-chunk is the nbytes of the data chunks plus
\* the nbytes of the ancillary chunks present.
C4_NbytesAccounting ==
  sc.nbytes = SumNbytes(sc.data) + SumNbytes(Ancillary(sc))

\* C5: an append_buffer or set_delta_ref in which the codec fails (a negative
\* value is returned) changes no field of the super-chunk.
C5_FailureAtomic ==
  [][ (last'.op \in {"append_buffer", "set_delta_ref"} /\ last'.ret < 0)
        => sc' = sc ]_vars

\* C6: packed_append_buffer on an image whose filter slot 0 is DELTA and whose
\* filters_chunk offset [40..48) is 0 returns null and leaves the image as it is.
C6_DeltaNeedsReference ==
  [][ ( /\ packed # << >>
        /\ last'.op = "packed_append_buffer"
        /\ (RdU16(packed, 8) % 8) = BLOSC_DELTA
        /\ RdI64(packed, 40) = 0 )
        => (last'.ret = 0 /\ packed' = packed /\ added' = added) ]_vars

\* C7: decode_filters inverts encode_filters on every slot.
C7_DecodeInverts ==
  \A i \in 1..BLOSC_MAX_FILTERS : decode_filters(sc.filters)[i] = params.filters[i]

\* C8: unpack of an image packed with k chunks and extended by N packed
\* appends gives k+N chunks, the first k those packed and the rest those
\* appended, in order, with nbytes and cbytes those stored at [24..32) and
\* [32..40); each append keeps every earlier table entry and chunk byte.
C8_PackedAppendOrder ==
  /\ [](last.op = "unpack" =>
          /\ ~last.abort
          /\ last.out.nchunks = sc.nchunks + Len(added)
          /\ last.out.data = sc.data \o added
          /\ last.out.nbytes = RdI64(packed, 24)
          /\ last.out.cbytes = RdI64(packed, 32))
  /\ [][ (packed # << >> /\ packed' # packed) =>
           /\ RdI64(packed', 16) = RdI64(packed, 16) + 1
           /\ \A i \in 0..(RdI64(packed, 16) - 1) :
                /\ TableEntry(packed', i) = TableEntry(packed, i)
                /\ ImageChunk(packed', i) = ImageChunk(packed, i)
           /\ ImageChunk(packed', RdI64(packed, 16)) = last'.chunk ]_vars

C8_Witness ==
  /\ last.op = "unpack"
  /\ sc.nchunks >= 1
  /\ Len(added) >= 2
  /\ added[1] # added[2]
  /\ last.out.data = sc.data \o added

\* C9: decompress_chunk returns -10 when the index is not below nchunks, and
\* -11 when it is and the capacity is below the chunk's nbytes; in both cases
\* blosc_decompress is not called (dest is not written) and the super-chunk
\* is as before.
C9_DecompressErrors ==
  /\ [](last.op = "decompress_chunk" =>
          /\ last.idx >= sc.nchunks => (last.ret = -10 /\ ~last.decomp)
          /\ (last.idx < sc.nchunks /\ last.cap < chunk_nbytes(sc.data[last.idx + 1]))
               => (last.ret = -11 /\ ~last.decomp))
  /\ [][last'.op = "decompress_chunk" => sc' = sc]_vars

C9_Witness ==
  /\ last.op = "decompress_chunk"
  /\ sc.nchunks = 2
  /\ last.idx = 1
  /\ last.cap < chunk_nbytes(sc.data[2])
  /\ last.ret = -11

\* C10: nchunks is the length of data; a successful append_chunk or
\* append_buffer adds one to nchunks, returns it, puts the chunk at the old
\* nchunks, and keeps the earlier chunks and the configuration fields.
C10_AppendOnly ==
  /\ [](sc.nchunks = Len(sc.data))
  /\ [][ /\ SubSeq(sc'.data, 1, Len(sc.data)) = sc.data
         /\ <<sc'.version, sc'.compressor, sc'.clevel, sc'.filters, sc'.filters_meta>>
              = <<sc.version, sc.compressor, sc.clevel, sc.filters, sc.filters_meta>>
         /\ (last'.op \in {"append_chunk", "append_buffer"} /\ last'.ret >= 0) =>
              /\ sc'.nchunks = sc.nchunks + 1
              /\ last'.ret = sc'.nchunks
              /\ Len(sc'.data) = sc.nchunks + 1
              /\ sc'.data[sc.nchunks + 1] = last'.chunk ]_vars

C10_Witness ==
  /\ last.op = "append_buffer"
  /\ last.ret = 2
  /\ sc.nchunks = 2
  /\ sc.data[1] # sc.data[2]
  /\ sc.data[2] = last.chunk

====

